---- MODULE Spec2Model ----
(***************************************************************************)
(* State-machine model of the BoxVPS service manager: the user store       *)
(* (users.json), the usage counters (stats.json), the Xray configuration   *)
(* file and the operations of ServiceManager, ProtocolManager and          *)
(* MonitoringManager that read and write them.                             *)
(***************************************************************************)
EXTENDS Integers, Sequences, FiniteSets, TLC

\* ------------------------------------------------------------------ bounds
\* Number of identity tokens uuid4() hands out in one run.
MaxUuid == 2
\* Number of traffic reports (update_user_traffic calls by the collector).
MaxReports == 1
\* Number of times the clock read by datetime.now() moves on in one run.
MaxTicks == 1

\* ------------------------------------------------------- program constants
\* 1024 * 1024 * 1024, the bytes of one GB of quota.
GB == 1073741824

\* The usernames the callers use.
Usernames == {"alice", "bob"}
Services == {"ssh", "xray"}

\* Optional values: None is <<>>, a present value v is <<v>>.
None == <<>>
Some(v) == <<v>>

Quotas == {None, Some(5)}

\* Outcome of the filesystem and of systemctl during one regeneration of the
\* Xray file: "ok", the open-for-write raises ("write"), or the file is
\* written and running systemctl raises ("restart").
XrayFaults == {"ok", "write", "restart"}

\* ------------------------------------------------- byte counts (Python int)
\* Python integers are unbounded; a byte count is kept as hi * GB + lo with
\* 0 <= lo < GB.
Bytes(hi, lo) == [hi |-> hi, lo |-> lo]
Zero == Bytes(0, 0)
AddBytes(a, b) ==
    LET lo == a.lo + b.lo
    IN  [hi |-> a.hi + b.hi + (lo \div GB), lo |-> lo % GB]
LessBytes(a, b) == a.hi < b.hi \/ (a.hi = b.hi /\ a.lo < b.lo)
\* quota * 1024 * 1024 * 1024
QuotaBytes(quota) == Bytes(quota, 0)

\* Traffic reports (upload, download) the collector sends.
ScenarioReport == <<Bytes(4, 0), Bytes(2, 0)>>
Reports ==
    { <<Bytes(4, 0), Bytes(0, GB - 1)>>,
      <<Bytes(4, 0), Bytes(1, 0)>>,
      ScenarioReport }

\* ---------------------------------------------------------------- state
VARIABLES
    users,      \* users.json: the mapping username -> record, in insertion order
    stats,      \* stats.json: username -> None | Some([upload, download])
    xrayFile,   \* /usr/local/etc/xray/config.json: None | Some([inbounds])
    topology,   \* config['services']['xray']['protocols']: enabled protocols
    nextUuid,   \* the next token uuid4() returns
    reports,    \* traffic reports sent so far
    applied,    \* banned users for whom a regeneration succeeded since the ban
    scen,       \* progress of the example scenario
    procs,      \* per caller process: where it is in the operation it runs
    torn,       \* users.json is open for writing: truncated, not yet dumped
    backup,     \* the archive backup_data made: None | Some(the files in it)
    now,        \* the time datetime.now() returns
    accounts    \* the names that have an OS account

vars == <<users, stats, xrayFile, topology, nextUuid, reports, applied, scen,
          procs, torn, backup, now, accounts>>

\* ------------------------------------------------------------ user store
Names(us) == {us[i].name : i \in 1..Len(us)}
Index(us, u) == CHOOSE i \in 1..Len(us) : us[i].name = u
\* users.get(username)
Get(us, u) == IF u \in Names(us) THEN Some(us[Index(us, u)]) ELSE None
\* del users[username]
Del(us, u) == SelectSeq(us, LAMBDA r : r.name # u)
\* users[username][field] = value on an existing key keeps its position
Put(us, u, rec) == [i \in 1..Len(us) |-> IF us[i].name = u THEN rec ELSE us[i]]

\* user_data of add_user
NewUser(u, service, quota, token) ==
    [name |-> u, created_at |-> now, quota |-> quota, quota_used |-> 0,
     banned |-> FALSE, banned_at |-> None,
     uuid |-> IF service = "xray" THEN Some(token) ELSE None]

\* ------------------------------------------------------- usage counters
ZeroTraffic == [upload |-> Zero, download |-> Zero]
NoReport == <<Zero, Zero>>
NoStats == [u \in Usernames |-> None]

\* get_user_traffic: stats.get(username, {upload: 0, download: 0, ...})
get_user_traffic(st, u) == IF st[u] # None THEN st[u][1] ELSE ZeroTraffic

\* update_user_traffic that counts the upload only
update_user_traffic_upload(st, u, up, down) ==
    LET old == IF st[u] = None THEN ZeroTraffic ELSE st[u][1]
    IN  [st EXCEPT ![u] = Some([upload   |-> AddBytes(old.upload, up),
                                download |-> old.download])]

\* update_user_traffic that stores the deltas in place of the sums
update_user_traffic_store(st, u, up, down) ==
    [st EXCEPT ![u] = Some([upload |-> up, download |-> down])]

\* update_user_traffic: create the entry if missing, then add the deltas
update_user_traffic(st, u, up, down) ==
    LET old == IF st[u] = None THEN ZeroTraffic ELSE st[u][1]
    IN  [st EXCEPT ![u] = Some([upload   |-> AddBytes(old.upload, up),
                                download |-> AddBytes(old.download, down)])]

\* reset_user_traffic that zeroes every entry of the file
reset_user_traffic_all(st, u) ==
    IF st[u] # None
    THEN [v \in DOMAIN st |-> IF st[v] # None THEN Some(ZeroTraffic) ELSE st[v]]
    ELSE st

\* reset_user_traffic: zero an existing entry, leave a missing one missing
reset_user_traffic(st, u) ==
    IF st[u] # None THEN [st EXCEPT ![u] = Some(ZeroTraffic)] ELSE st

\* _get_user_quota: users.get(username, {}).get('quota')
get_user_quota(us, u) == IF Get(us, u) # None THEN Get(us, u)[1].quota ELSE None

\* check_user_quota with "<=" in place of "<"
check_user_quota_le(st, us, u) ==
    IF st[u] = None THEN TRUE
    ELSE LET total == AddBytes(st[u][1].upload, st[u][1].download)
             quota == get_user_quota(us, u)
         IN  IF quota = None THEN TRUE
             ELSE ~LessBytes(QuotaBytes(quota[1]), total)

\* check_user_quota: TRUE means "within quota"
check_user_quota(st, us, u) ==
    IF st[u] = None THEN TRUE
    ELSE LET total == AddBytes(st[u][1].upload, st[u][1].download)
             quota == get_user_quota(us, u)
         IN  IF quota = None THEN TRUE
             ELSE LessBytes(total, QuotaBytes(quota[1]))

is_over_quota(st, us, u) == ~check_user_quota(st, us, u)

\* get_user_info: the stored record with the traffic attached, or None
get_user_info(us, st, u) ==
    LET d == Get(us, u)
    IN  IF d # None
        THEN Some([created_at |-> d[1].created_at,
                   quota |-> d[1].quota, quota_used |-> d[1].quota_used,
                   banned |-> d[1].banned, banned_at |-> d[1].banned_at,
                   uuid |-> d[1].uuid,
                   traffic |-> get_user_traffic(st, u)])
        ELSE None

\* get_user_info while users.json is as it is on disk: _load_users is not
\* in a try block, and json.load raises on the file that open(..., 'w')
\* has truncated (t).
get_user_info_on_disk(t, us, st, u) ==
    IF t THEN "JSONDecodeError" ELSE get_user_info(us, st, u)

\* ------------------------------------------------------ Xray generator
Supported == {"vmess", "vless", "trojan"}

\* The client entry update_xray_users writes for one user of one inbound.
ClientEntry(protocol, token) ==
    CASE protocol = "vmess"  -> [id |-> token, alterId |-> 0]
      [] protocol = "vless"  -> [id |-> token]
      [] protocol = "trojan" -> [password |-> token]

\* The token a client entry carries.
ClientToken(protocol, c) == IF protocol = "trojan" THEN c.password ELSE c.id

\* The list comprehension without its "if not banned" filter
Unbanned_all(us) == us

\* The users the list comprehension keeps: not user_data.get('banned', False)
Unbanned(us) == SelectSeq(us, LAMBDA r : ~r.banned)

\* users[username]['uuid'] raises KeyError for a kept user without a uuid.
RaisesKeyError(cfg, us) ==
    /\ \E i \in 1..Len(cfg.inbounds) : cfg.inbounds[i].protocol \in Supported
    /\ \E i \in 1..Len(Unbanned(us)) : Unbanned(us)[i].uuid = None

ClientList(protocol, us) ==
    LET kept == Unbanned(us)
    IN  [i \in 1..Len(kept) |-> ClientEntry(protocol, kept[i].uuid[1])]

\* Regeneration that extends the client lists instead of replacing them
Regenerated_append(cfg, us) ==
    [inbounds |->
        [i \in 1..Len(cfg.inbounds) |->
            IF cfg.inbounds[i].protocol \in Supported
            THEN [cfg.inbounds[i] EXCEPT
                    !.clients = @ \o ClientList(cfg.inbounds[i].protocol, us)]
            ELSE cfg.inbounds[i]]]

\* The file update_xray_users writes: every supported inbound gets the
\* client list of the kept users, everything else is kept.
Regenerated(cfg, us) ==
    [inbounds |->
        [i \in 1..Len(cfg.inbounds) |->
            IF cfg.inbounds[i].protocol \in Supported
            THEN [cfg.inbounds[i] EXCEPT !.clients = ClientList(cfg.inbounds[i].protocol, us)]
            ELSE cfg.inbounds[i]]]

\* update_xray_users(users): the file it leaves, its return value, the
\* external calls it makes and the fault that struck it ("ok" when the write
\* was not reached).  Every exception is caught and turned into False.
update_xray_users(file, us, fault) ==
    IF file = None                          \* open(..., 'r'): FileNotFoundError
    THEN [file |-> file, ok |-> FALSE, calls |-> <<>>, fault |-> "ok"]
    ELSE IF RaisesKeyError(file[1], us)
    THEN [file |-> file, ok |-> FALSE, calls |-> <<>>, fault |-> "ok"]
    ELSE IF fault = "write"                 \* open(..., 'w') raises
    THEN [file |-> file, ok |-> FALSE, calls |-> <<"write_xray">>, fault |-> fault]
    ELSE [file  |-> Some(Regenerated(file[1], us)),
          ok    |-> fault # "restart",
          calls |-> <<"write_xray", "restart_xray">>,
          fault |-> fault]

\* The inbounds configure_xray builds, in the order vmess, vless, trojan,
\* each with an empty client list.
ConfiguredInbounds(protocols) ==
    LET all == <<"vmess", "vless", "trojan">>
        on  == SelectSeq(all, LAMBDA p : p \in protocols)
    IN  [i \in 1..Len(on) |-> [protocol |-> on[i], clients |-> <<>>]]

\* configure_xray(port, protocols)
configure_xray(file, protocols, fault) ==
    IF fault = "write"
    THEN [file |-> file, ok |-> FALSE, calls |-> <<"write_xray">>, fault |-> fault]
    ELSE [file  |-> Some([inbounds |-> ConfiguredInbounds(protocols)]),
          ok    |-> fault # "restart",
          calls |-> <<"write_xray", "restart_xray">>,
          fault |-> fault]

\* The identity tokens in the client list of one inbound, and of the file.
InboundTokens(ib) == {ClientToken(ib.protocol, ib.clients[j]) : j \in 1..Len(ib.clients)}
FileTokens(file) ==
    IF file = None THEN {}
    ELSE UNION {InboundTokens(file[1].inbounds[i]) : i \in 1..Len(file[1].inbounds)}

\* ------------------------------------------------------- ServiceManager
\* The files an operation works on, and what it leaves: the files, its
\* return value (ok), the outcome of the regeneration it ran (regen: "none",
\* "ok" or "failed"), the external primitives it invoked (calls) and the
\* fault that struck its regeneration (fault).
Files(us, st, file, uuid) == [users |-> us, stats |-> st, xrayFile |-> file, nextUuid |-> uuid]
Cur == Files(users, stats, xrayFile, nextUuid)
Result(us, st, file, uuid, ok, regen, calls, fault) ==
    [users |-> us, stats |-> st, xrayFile |-> file, nextUuid |-> uuid,
     ok |-> ok, regen |-> regen, calls |-> calls, fault |-> fault]
Rejected(S) == Result(S.users, S.stats, S.xrayFile, S.nextUuid, FALSE, "none", <<>>, "ok")
RegenOutcome(r) == IF r.ok THEN "ok" ELSE "failed"
\* _save_users raises (fault "store") before it has changed the file: the
\* operation returns False from its except clause, after the calls it had
\* made by then.
StoreFailed(S, calls) ==
    Result(S.users, S.stats, S.xrayFile, S.nextUuid, FALSE, "none", calls, "store")

\* add_user without the "username in users" check: the record is replaced
add_user_overwrite(S, u, service, quota, fault) ==
    LET rec == NewUser(u, service, quota, S.nextUuid)
        us2 == IF u \in Names(S.users) THEN Put(S.users, u, rec) ELSE Append(S.users, rec)
        st2 == update_user_traffic(S.stats, u, Zero, Zero)
        r   == update_xray_users(S.xrayFile, us2, fault)
    IN  IF service = "xray"
        THEN Result(us2, st2, r.file, S.nextUuid + 1, TRUE, RegenOutcome(r), r.calls, r.fault)
        ELSE Result(us2, st2, S.xrayFile, S.nextUuid, TRUE, "none",
                    <<"useradd", "chpasswd">>, "ok")

\* add_user that sets the counters of the new user to zero
add_user_zeroing(S, u, service, quota, fault) ==
    IF u \in Names(S.users) THEN Rejected(S)
    ELSE LET us2 == Append(S.users, NewUser(u, service, quota, S.nextUuid))
             st2 == [S.stats EXCEPT ![u] = Some(ZeroTraffic)]
             r   == update_xray_users(S.xrayFile, us2, fault)
         IN  IF service = "xray"
             THEN Result(us2, st2, r.file, S.nextUuid + 1, TRUE, RegenOutcome(r), r.calls, r.fault)
             ELSE Result(us2, st2, S.xrayFile, S.nextUuid, TRUE, "none",
                         <<"useradd", "chpasswd">>, "ok")

\* add_user that stops when useradd finds the account in place: the record
\* is stored, the usage baseline is not written
add_user_checked(S, u, service, quota, fault) ==
    IF u \in Names(S.users) THEN Rejected(S)
    ELSE IF service = "ssh" /\ u \in accounts
    THEN Result(Append(S.users, NewUser(u, service, quota, S.nextUuid)), S.stats,
                S.xrayFile, S.nextUuid, FALSE, "none", <<"useradd">>, "ok")
    ELSE LET us2 == Append(S.users, NewUser(u, service, quota, S.nextUuid))
             st2 == update_user_traffic(S.stats, u, Zero, Zero)
             r   == update_xray_users(S.xrayFile, us2, fault)
         IN  IF service = "xray"
             THEN Result(us2, st2, r.file, S.nextUuid + 1, TRUE, RegenOutcome(r), r.calls, r.fault)
             ELSE Result(us2, st2, S.xrayFile, S.nextUuid, TRUE, "none",
                         <<"useradd", "chpasswd">>, "ok")

\* add_user(username, password, service, quota); fault is the outcome the
\* environment gives the write and the restart of the regeneration, or
\* "stats" when it is the write of the stats file that fails, or "store"
\* when it is the write of the user store.
add_user(S, u, service, quota, fault) ==
    IF u \in Names(S.users) THEN Rejected(S)
    ELSE IF fault = "store" THEN StoreFailed(S, <<>>)
    ELSE LET us2 == Append(S.users, NewUser(u, service, quota, S.nextUuid))
             st2 == IF fault = "stats" THEN S.stats
                    ELSE update_user_traffic(S.stats, u, Zero, Zero)
             r   == update_xray_users(S.xrayFile, us2, IF fault = "stats" THEN "ok" ELSE fault)
             struck == IF fault = "stats" THEN fault ELSE r.fault
         IN  IF service = "xray"
             THEN Result(us2, st2, r.file, S.nextUuid + 1, TRUE, RegenOutcome(r), r.calls, struck)
             ELSE Result(us2, st2, S.xrayFile, S.nextUuid, TRUE, "none",
                         <<"useradd", "chpasswd">>, IF fault = "stats" THEN fault ELSE "ok")

\* delete_user that runs userdel before looking the user up
delete_user_eager(S, u, fault) ==
    IF u \notin Names(S.users)
    THEN Result(S.users, S.stats, S.xrayFile, S.nextUuid, FALSE, "none", <<"userdel">>, "ok")
    ELSE LET us2 == Del(S.users, u)
             r   == update_xray_users(S.xrayFile, us2, fault)
         IN  Result(us2, reset_user_traffic(S.stats, u), r.file, S.nextUuid, TRUE,
                    RegenOutcome(r), <<"userdel">> \o r.calls, r.fault)

\* delete_user(username): userdel runs before the store is written
delete_user(S, u, fault) ==
    IF u \notin Names(S.users) THEN Rejected(S)
    ELSE IF fault = "store" THEN StoreFailed(S, <<"userdel">>)
    ELSE LET us2 == Del(S.users, u)
             r   == update_xray_users(S.xrayFile, us2, fault)
         IN  Result(us2, reset_user_traffic(S.stats, u), r.file, S.nextUuid, TRUE,
                    RegenOutcome(r), <<"userdel">> \o r.calls, r.fault)

\* ban_user and unban_user(username, service) differ in the flag and the
\* banned_at they set (datetime.now() or None) and in the fail2ban command.
SetBanned(S, banned, primitive, u, service, fault) ==
    IF u \notin Names(S.users) THEN Rejected(S)
    ELSE IF fault = "store" THEN StoreFailed(S, <<>>)
    ELSE LET us2 == Put(S.users, u,
                        [Get(S.users, u)[1] EXCEPT
                            !.banned = banned,
                            !.banned_at = IF banned THEN Some(now) ELSE None])
             r   == update_xray_users(S.xrayFile, us2, fault)
         IN  IF service = "ssh"
             THEN Result(us2, S.stats, S.xrayFile, S.nextUuid, TRUE, "none", <<primitive>>, "ok")
             ELSE IF service = "xray"
             THEN Result(us2, S.stats, r.file, S.nextUuid, TRUE, RegenOutcome(r), r.calls, r.fault)
             ELSE Result(us2, S.stats, S.xrayFile, S.nextUuid, TRUE, "none", <<>>, "ok")

\* ban_user that returns what update_xray_users returned
ban_user_strict(S, u, service, fault) ==
    LET r == SetBanned(S, TRUE, "fail2ban_banip", u, service, fault)
    IN  [r EXCEPT !.ok = @ /\ r.regen # "failed"]
ban_user(S, u, service, fault) == SetBanned(S, TRUE, "fail2ban_banip", u, service, fault)
unban_user(S, u, service, fault) == SetBanned(S, FALSE, "fail2ban_unbanip", u, service, fault)

\* set_quota that reports success without writing the record
set_quota_unsaved(S, u, quota) ==
    IF u \notin Names(S.users) THEN Rejected(S)
    ELSE Result(S.users, S.stats, S.xrayFile, S.nextUuid, TRUE, "none", <<>>, "ok")

\* set_quota that stamps the record with the time of the change
set_quota_stamped(S, u, quota) ==
    IF u \notin Names(S.users) THEN Rejected(S)
    ELSE Result(Put(S.users, u, [Get(S.users, u)[1] EXCEPT !.quota = quota,
                                                           !.created_at = now]),
                S.stats, S.xrayFile, S.nextUuid, TRUE, "none", <<>>, "ok")

\* set_quota(username, service, quota): service is not looked at
set_quota(S, u, quota) ==
    IF u \notin Names(S.users) THEN Rejected(S)
    ELSE Result(Put(S.users, u, [Get(S.users, u)[1] EXCEPT !.quota = quota]),
                S.stats, S.xrayFile, S.nextUuid, TRUE, "none", <<>>, "ok")

\* change_uuid(username)
change_uuid(S, u, fault) ==
    IF u \notin Names(S.users) THEN Rejected(S)
    ELSE IF fault = "store" THEN StoreFailed(S, <<>>)
    ELSE LET us2 == Put(S.users, u, [Get(S.users, u)[1] EXCEPT !.uuid = Some(S.nextUuid)])
             r   == update_xray_users(S.xrayFile, us2, fault)
         IN  Result(us2, S.stats, r.file, S.nextUuid + 1, TRUE, RegenOutcome(r), r.calls, r.fault)

\* configure_services(): the Xray part; the results of the configure_* calls
\* are not looked at.
configure_services(S, protocols, fault) ==
    LET r == configure_xray(S.xrayFile, protocols, fault)
    IN  Result(S.users, S.stats, r.file, S.nextUuid, TRUE, RegenOutcome(r), r.calls, r.fault)

\* update_xray_users(users) called with the stored mapping
regenerate(S, fault) ==
    LET r == update_xray_users(S.xrayFile, S.users, fault)
    IN  Result(S.users, S.stats, r.file, S.nextUuid, r.ok, RegenOutcome(r), r.calls, r.fault)

\* update_user_traffic and reset_user_traffic as the collector calls them
add_usage(S, u, rep) ==
    Result(S.users, update_user_traffic(S.stats, u, rep[1], rep[2]), S.xrayFile,
           S.nextUuid, TRUE, "none", <<>>, "ok")
reset_usage(S, u) ==
    Result(S.users, reset_user_traffic(S.stats, u), S.xrayFile, S.nextUuid, TRUE,
           "none", <<>>, "ok")

\* What tar -czf puts in the archive: /etc/boxvps/data (users.json and
\* stats.json) and /usr/local/etc/xray as they are on disk, users.json
\* truncated (t) if it is open for writing.
Archived_without_stats(S, t) ==
    [users |-> S.users, stats |-> NoStats, xrayFile |-> S.xrayFile, torn |-> t]
Archived(S, t) ==
    [users |-> S.users, stats |-> S.stats, xrayFile |-> S.xrayFile, torn |-> t]

\* restore_data(backup_file): False when the path does not exist (archive
\* None); otherwise tar -xzf puts the archived files in place of the
\* current ones and the services are restarted.
restore_data(S, archive) ==
    IF archive = None THEN Rejected(S)
    ELSE Result(archive[1].users, archive[1].stats, archive[1].xrayFile, S.nextUuid,
                TRUE, "none", <<"tar_extract", "restart_xray">>, "ok")

\* ------------------------------------------------- history of the run
BannedNames(us) == {us[i].name : i \in {j \in 1..Len(us) : us[j].banned}}
TokenOf(us, u) == IF Get(us, u) # None THEN Get(us, u)[1].uuid ELSE None

\* Banned users for whom a regeneration has succeeded since they were banned.
AppliedNext(r) == {u \in BannedNames(r.users) : r.regen = "ok" \/ u \in applied}

\* The example scenario: add_user(alice, xray, quota 5) on a system with no
\* usage recorded for alice, add_usage(alice, 4 GB, 2 GB), ban_user(alice,
\* xray), delete_user(alice), each in a healthy environment.  step counts
\* the steps done; listed tells whether the add put alice's token in the file.
ScenNext(op, u, service, quota, rep, r) ==
    IF /\ op = "add_user" /\ u = "alice" /\ service = "xray" /\ quota = Some(5)
       /\ r.ok /\ r.fault = "ok" /\ get_user_traffic(stats, "alice") = ZeroTraffic
    THEN [step |-> 1, listed |-> r.regen = "ok"]
    ELSE IF /\ scen.step = 1 /\ op = "add_usage" /\ u = "alice"
            /\ rep = ScenarioReport /\ r.ok
    THEN [scen EXCEPT !.step = 2]
    ELSE IF /\ scen.step = 2 /\ op = "ban_user" /\ u = "alice" /\ service = "xray"
            /\ r.ok /\ r.fault = "ok"
    THEN [scen EXCEPT !.step = 3]
    ELSE IF /\ scen.step = 3 /\ op = "delete_user" /\ u = "alice" /\ r.ok /\ r.fault = "ok"
    THEN [scen EXCEPT !.step = 4]
    ELSE [step |-> 0, listed |-> FALSE]

\* The OS accounts after the calls an operation made for u: useradd makes
\* the account of u if there is none, userdel removes it if there is one;
\* the exit status of neither is looked at.
AccountsAfter(acc, calls, u) ==
    LET made == {calls[i] : i \in 1..Len(calls)}
    IN  IF "useradd" \in made THEN acc \cup {u}
        ELSE IF "userdel" \in made THEN acc \ {u}
        ELSE acc

\* The step that runs one operation with the environment's outcome fault:
\* the files become what it leaves.  An outcome other than "ok" is one the
\* operation met.
ApplyFiles(op, u, service, quota, rep, fault, r) ==
    /\ r.fault = fault
    /\ r.nextUuid <= MaxUuid + 1
    /\ users' = r.users
    /\ stats' = r.stats
    /\ xrayFile' = r.xrayFile
    /\ nextUuid' = r.nextUuid
    /\ applied' = AppliedNext(r)
    /\ scen' = ScenNext(op, u, service, quota, rep, r)
    /\ UNCHANGED <<topology, procs, torn, backup, now>>

\* The same step where the OS accounts are not followed.
Apply(op, u, service, quota, rep, fault, r) ==
    /\ ApplyFiles(op, u, service, quota, rep, fault, r)
    /\ UNCHANGED accounts

\* ------------------------------------------------------ caller processes
\* Two invocations of the CLI, each a process of its own with its own
\* ServiceManager.
Callers == {"cli", "cli2"}
\* A process that runs no operation.
Idle == [pc |-> "idle", op |-> "none", u |-> "none", pending |-> <<>>, ok |-> FALSE]
\* A process whose operation has returned ok.
Returned(p, ok) == [p EXCEPT !.pc = "done", !.pending = <<>>, !.ok = ok]
InFlight(c) == procs[c].pc \notin {"idle", "done"}

\* ---------------------------------------------------------------- Init
Topologies == {{"vmess", "vless", "trojan"}}

Init ==
    /\ users = <<>>
    /\ stats = NoStats
    /\ xrayFile = None
    /\ topology \in Topologies
    /\ nextUuid = 1
    /\ reports = 0
    /\ applied = {}
    /\ scen = [step |-> 0, listed |-> FALSE]
    /\ procs = [c \in Callers |-> Idle]
    /\ torn = FALSE
    /\ backup = None
    /\ now = 0
    /\ accounts = {}

\* -------------------------------------------------------------- actions
AddUser(u, service, quota, F) ==
    /\ \E fault \in F :
         Apply("add_user", u, service, quota, NoReport, fault,
               add_user(Cur, u, service, quota, fault))
    /\ UNCHANGED reports

DeleteUser(u, F) ==
    /\ \E fault \in F :
         Apply("delete_user", u, "none", None, NoReport, fault, delete_user(Cur, u, fault))
    /\ UNCHANGED reports

BanUser(u, service, F) ==
    /\ \E fault \in F :
         Apply("ban_user", u, service, None, NoReport, fault,
               ban_user(Cur, u, service, fault))
    /\ UNCHANGED reports

UnbanUser(u, service, F) ==
    /\ \E fault \in F :
         Apply("unban_user", u, service, None, NoReport, fault,
               unban_user(Cur, u, service, fault))
    /\ UNCHANGED reports

SetQuota(u, quota) ==
    /\ Apply("set_quota", u, "none", quota, NoReport, "ok", set_quota(Cur, u, quota))
    /\ UNCHANGED reports

ChangeUuid(u, F) ==
    /\ \E fault \in F :
         Apply("change_uuid", u, "none", None, NoReport, fault, change_uuid(Cur, u, fault))
    /\ UNCHANGED reports

ConfigureServices(F) ==
    /\ \E fault \in F :
         Apply("configure_services", "none", "none", None, NoReport, fault,
               configure_services(Cur, topology, fault))
    /\ UNCHANGED reports

RegenerateXray(F) ==
    /\ \E fault \in F :
         Apply("update_xray_users", "none", "none", None, NoReport, fault,
               regenerate(Cur, fault))
    /\ UNCHANGED reports

AddUsage(u, rep, max) ==
    /\ reports < max
    /\ reports' = reports + 1
    /\ Apply("add_usage", u, "none", None, rep, "ok", add_usage(Cur, u, rep))

ResetUsage(u) ==
    /\ Apply("reset_usage", u, "none", None, NoReport, "ok", reset_usage(Cur, u))
    /\ UNCHANGED reports

\* ------------------------------------------------------------------ Next
\* One step of the system: any operation, with the environment's outcomes
\* drawn from F and the collector's reports from R, at most max of them.
\* The operations of ServiceManager and ProtocolManager, with the outcomes F
\* of the environment.
Manage(F) ==
    \/ \E u \in Usernames, service \in Services, quota \in Quotas :
          AddUser(u, service, quota, F)
    \/ \E u \in Usernames : DeleteUser(u, F)
    \/ \E u \in Usernames, service \in Services : BanUser(u, service, F)
    \/ \E u \in Usernames, service \in Services : UnbanUser(u, service, F)
    \/ \E u \in Usernames, quota \in Quotas \ {None} : SetQuota(u, quota)
    \/ \E u \in Usernames : ChangeUuid(u, F)
    \/ ConfigureServices(F)
    \/ RegenerateXray(F)

\* The traffic collector's calls into MonitoringManager.
Collect(R, max) ==
    \/ \E u \in Usernames, rep \in R : AddUsage(u, rep, max)
    \/ \E u \in Usernames : ResetUsage(u)

\* User and protocol management with every outcome of the environment; the
\* traffic collector is idle.
Next == Manage(XrayFaults)
Spec == Init /\ [][Next]_vars

\* User and protocol management in a healthy environment, with the traffic
\* collector reporting.
NextQuota == Manage({"ok"}) \/ Collect(Reports, MaxReports)
SpecQuota == Init /\ [][NextQuota]_vars

\* ------------------------------------------ operations step by step
\* The operations a caller process runs step by step: set_quota(u, 'ssh', 5)
\* and ban_user(u, 'ssh').
StepOps == {"set_quota", "ban_user"}
Outcome(op, u) ==
    IF op = "set_quota" THEN set_quota(Cur, u, Some(5)) ELSE ban_user(Cur, u, "ssh", "ok")

\* _load_users and the change of the loaded mapping.  json.load raises on a
\* truncated file and the operation returns False, as it does for an
\* unknown username.
Call(c, op, u) ==
    /\ ~InFlight(c)
    /\ LET r == Outcome(op, u)
           p == [pc |-> "loaded", op |-> op, u |-> u, pending |-> r.users, ok |-> FALSE]
       IN  procs' = [procs EXCEPT ![c] = IF torn \/ ~r.ok THEN Returned(p, FALSE) ELSE p]
    /\ UNCHANGED <<users, stats, xrayFile, topology, nextUuid, reports, applied, scen,
                   torn, backup, now, accounts>>

\* _save_users, first half: open(self.users_file, 'w') truncates the file.
\* (Two processes that have the file open for writing at once are not
\* followed.)
OpenStore(c) ==
    /\ procs[c].pc = "loaded"
    /\ \A d \in Callers : procs[d].pc # "writing"
    /\ procs' = [procs EXCEPT ![c].pc = "writing"]
    /\ torn' = TRUE
    /\ UNCHANGED <<users, stats, xrayFile, topology, nextUuid, reports, applied, scen,
                   backup, now, accounts>>

\* _save_users, second half: json.dump writes the mapping.  set_quota then
\* returns True; ban_user goes on to run fail2ban-client.
WriteStore(c) ==
    /\ procs[c].pc = "writing"
    /\ users' = procs[c].pending
    /\ torn' = FALSE
    /\ procs' = [procs EXCEPT ![c] = IF procs[c].op = "ban_user"
                                      THEN [procs[c] EXCEPT !.pc = "backend", !.pending = <<>>]
                                      ELSE Returned(procs[c], TRUE)]
    /\ UNCHANGED <<stats, xrayFile, topology, nextUuid, reports, applied, scen, backup,
                   now, accounts>>

\* subprocess.run([...]) returns when the child process exits, whatever its
\* exit status, and the operation returns True.
BackendReturns(c) ==
    /\ procs[c].pc = "backend"
    /\ procs' = [procs EXCEPT ![c] = Returned(procs[c], TRUE)]
    /\ UNCHANGED <<users, stats, xrayFile, topology, nextUuid, reports, applied, scen,
                   torn, backup, now, accounts>>

\* The child process never exits.  subprocess.run is called without a
\* timeout: the caller waits.
BackendHangs(c) ==
    /\ procs[c].pc = "backend"
    /\ procs' = [procs EXCEPT ![c].pc = "hung"]
    /\ UNCHANGED <<users, stats, xrayFile, topology, nextUuid, reports, applied, scen,
                   torn, backup, now, accounts>>

\* The steps by which a process goes on with the operation it runs.
Proceed(c) == OpenStore(c) \/ WriteStore(c) \/ BackendReturns(c) \/ BackendHangs(c)

\* The process is killed in the middle of its operation and started again.
Crash(c) ==
    /\ InFlight(c)
    /\ procs' = [procs EXCEPT ![c] = Idle]
    /\ UNCHANGED <<users, stats, xrayFile, topology, nextUuid, reports, applied, scen,
                   torn, backup, now, accounts>>

\* backup_data(): tar archives the data directory and the Xray directory as
\* they are on disk.
BackupData ==
    /\ backup' = Some(Archived(Cur, torn))
    /\ UNCHANGED <<users, stats, xrayFile, topology, nextUuid, reports, applied, scen,
                   procs, torn, now, accounts>>

\* restore_data(backup_file): tar extracts the archive over the files.
RestoreData ==
    /\ backup # None
    /\ LET r == restore_data(Cur, backup)
       IN  /\ users' = r.users
           /\ stats' = r.stats
           /\ xrayFile' = r.xrayFile
    /\ torn' = backup[1].torn
    /\ UNCHANGED <<topology, nextUuid, reports, applied, scen, procs, backup, now, accounts>>

\* The operation each process is given to run.
CallerOps == [c \in Callers |-> IF c = "cli" THEN {"set_quota"} ELSE {"ban_user"}]

\* The caller processes of P running their operations step by step, killed
\* at any point, with ssh users added in between.
Processes(P) ==
    \/ \E u \in Usernames : ~torn /\ AddUser(u, "ssh", None, {"ok"})
    \/ \E c \in P : \E op \in CallerOps[c], u \in Usernames : Call(c, op, u)
    \/ \E c \in P : OpenStore(c)
    \/ \E c \in P : WriteStore(c)
    \/ \E c \in P : BackendReturns(c)
    \/ \E c \in P : BackendHangs(c)
    \/ \E c \in P : Crash(c)

\* Two CLI processes at work at the same time.
NextProc == Processes(Callers)
SpecProc == Init /\ [][NextProc]_vars

\* A CLI process at work while the API/bot process makes and restores
\* backups.
NextBackup == Processes({"cli2"}) \/ BackupData \/ RestoreData
SpecBackup == Init /\ [][NextBackup]_vars

\* --------------------------------------------------------------- time
\* Time passes between two operations.
Tick ==
    /\ now < MaxTicks
    /\ now' = now + 1
    /\ UNCHANGED <<users, stats, xrayFile, topology, nextUuid, reports, applied, scen,
                   procs, torn, backup, accounts>>

\* ------------------------------------------------- stats file faults
\* What the write of the stats file can do in add_user: "stats" is
\* _save_stats raising, which update_user_traffic answers with False and
\* add_user does not look at.
StatsFaults == {"ok", "stats"}
\* Quotas as the command line takes them, zero included.
QuotasFromZero == {None, Some(0)}

\* User management and the collector when the stats file may fail to be
\* written.
NextTracker ==
    \/ \E u \in Usernames, quota \in QuotasFromZero :
          AddUser(u, "ssh", quota, StatsFaults)
    \/ \E u \in Usernames : DeleteUser(u, {"ok"})
    \/ \E u \in Usernames, quota \in QuotasFromZero \ {None} : SetQuota(u, quota)
    \/ Collect(Reports, MaxReports)
SpecTracker == Init /\ [][NextTracker]_vars

\* get_user_info as an operation on the files: it loads users.json and the
\* stats file and writes neither
get_user_info_call(S, u) ==
    Result(S.users, S.stats, S.xrayFile, S.nextUuid,
           get_user_info(S.users, S.stats, u) # None, "none", <<>>, "ok")

\* ---------------------------------------------------------- OS accounts
\* add_user and delete_user with the OS accounts followed.
AddUserAccount(u, service, quota, F) ==
    /\ \E fault \in F :
         LET r == add_user(Cur, u, service, quota, fault)
         IN  /\ ApplyFiles("add_user", u, service, quota, NoReport, fault, r)
             /\ accounts' = AccountsAfter(accounts, r.calls, u)
    /\ UNCHANGED reports

DeleteUserAccount(u, F) ==
    /\ \E fault \in F :
         LET r == delete_user(Cur, u, fault)
         IN  /\ ApplyFiles("delete_user", u, "none", None, NoReport, fault, r)
             /\ accounts' = AccountsAfter(accounts, r.calls, u)
    /\ UNCHANGED reports

\* Users added and deleted, with a store that may fail to be written, and
\* backups made and restored in between.
NextAccounts ==
    \/ \E u \in Usernames, service \in Services :
          AddUserAccount(u, service, None, {"ok"})
    \/ \E u \in Usernames : DeleteUserAccount(u, {"ok", "store"})
    \/ BackupData
    \/ RestoreData
SpecAccounts == Init /\ [][NextAccounts]_vars

\* ------------------------------------------------- store write faults
\* What the write of users.json can do: "store" is _save_users raising.
StoreFaults == {"ok", "store"}

\* User and protocol management when the user store may fail to be written.
NextStore ==
    \/ \E u \in Usernames, service \in Services, quota \in Quotas :
          AddUser(u, service, quota, StoreFaults)
    \/ \E u \in Usernames : DeleteUser(u, StoreFaults)
    \/ \E u \in Usernames, service \in Services : BanUser(u, service, StoreFaults)
    \/ \E u \in Usernames, service \in Services : UnbanUser(u, service, StoreFaults)
    \/ \E u \in Usernames : ChangeUuid(u, StoreFaults)
    \/ ConfigureServices({"ok"})
SpecStore == Init /\ [][NextStore]_vars

\* User and protocol management in a healthy environment as time passes.
NextTime == Manage({"ok"}) \/ Tick
SpecTime == Init /\ [][NextTime]_vars

\* ================================================================ claims
Absent == Usernames \ Names(users)
Total(t) == AddBytes(t.upload, t.download)
\* The file lists the token in the client list of every inbound.
ListedEverywhere(file, token) ==
    /\ file # None
    /\ \A i \in 1..Len(file[1].inbounds) : token \in InboundTokens(file[1].inbounds[i])

\* C1: after add_user(u, credential, type, quota) reports success for a
\* username not in the store, get_user_info(u) returns a record with the
\* supplied quota and backend type, banned = false and usage 0.
C1_AddThenInfo ==
    \A u \in Absent, service \in Services, quota \in Quotas :
        LET r    == add_user(Cur, u, service, quota, "ok")
            info == get_user_info(r.users, r.stats, u)
        IN  r.ok =>
              /\ info # None
              /\ info[1].quota = quota
              /\ (info[1].uuid # None) <=> (service = "xray")
              /\ info[1].banned = FALSE
              /\ info[1].quota_used = 0
              /\ Total(info[1].traffic) = Zero

\* C2: add_user with a username already in the store, whatever the backend
\* type of the existing and of the new user, returns failure and leaves the
\* user store unchanged.
C2_AddExistingRejected ==
    \A u \in Names(users), service \in Services, quota \in Quotas, fault \in XrayFaults :
        LET r == add_user(Cur, u, service, quota, fault)
        IN  ~r.ok /\ r.users = users

\* A store holding an ssh user and an xray user, on which add_user of either
\* name with either type is turned down.
C2_Witness ==
    /\ \E i, j \in 1..Len(users) : users[i].uuid = None /\ users[j].uuid # None
    /\ \A u \in Names(users), service \in Services :
          ~add_user(Cur, u, service, Some(5), "ok").ok

\* C3: for a proxy user u, after ban_user(u, "xray") reports success the
\* client list of no inbound holds u's token, and after a following
\* unban_user(u, "xray") reports success the client list of every inbound
\* holds it (healthy environment, Xray file present).
C3_BanThenUnban ==
    \A u \in Names(users) :
        (xrayFile # None /\ TokenOf(users, u) # None) =>
            LET b  == ban_user(Cur, u, "xray", "ok")
                ub == unban_user(b, u, "xray", "ok")
            IN  /\ b.ok => TokenOf(users, u)[1] \notin FileTokens(b.xrayFile)
                /\ (b.ok /\ ub.ok) => ListedEverywhere(ub.xrayFile, TokenOf(users, u)[1])

\* C4: after delete_user(u) reports success, u is not in the store and u's
\* token is in no client list of the Xray file (healthy environment, Xray
\* file present).
C4_DeleteRemoves ==
    \A u \in Names(users) :
        LET r == delete_user(Cur, u, "ok")
        IN  (xrayFile # None /\ r.ok) =>
              /\ u \notin Names(r.users)
              /\ TokenOf(users, u) # None =>
                    TokenOf(users, u)[1] \notin FileTokens(r.xrayFile)

\* C5: for a user with a quota q and tracked counters, is_over_quota is true
\* exactly when upload + download >= q * 2^30: false at q * 2^30 - 1 bytes,
\* true at q * 2^30 bytes; for a user with no quota it is false.
\* (upload + download >= q * 2^30 is stated as floor((upload + download) /
\* 2^30) >= q.)
C5_QuotaBoundary ==
    \A u \in Usernames :
        LET quota == get_user_quota(users, u)
            over  == is_over_quota(stats, users, u)
        IN  /\ quota = None => ~over
            /\ (quota # None /\ stats[u] # None) =>
                  LET t == stats[u][1]
                      whole == t.upload.hi + t.download.hi
                                 + ((t.upload.lo + t.download.lo) \div GB)
                      rest  == (t.upload.lo + t.download.lo) % GB
                  IN  /\ over <=> (whole >= quota[1])
                      /\ (whole = quota[1] - 1 /\ rest = GB - 1) => ~over
                      /\ (whole = quota[1] /\ rest = 0) => over

\* A user with quota 5 whose counters add up to exactly 5 * 2^30 bytes.
C5_Witness ==
    \E u \in Names(users) :
        /\ get_user_quota(users, u) = Some(5)
        /\ stats[u] # None
        /\ Total(stats[u][1]) = Bytes(5, 0)
        /\ is_over_quota(stats, users, u)

\* C6: the example run: add_user(alice, xray, quota 5) leaves usage 0;
\* after add_usage(alice, 4 * 2^30, 2 * 2^30) alice is over quota; after
\* ban_user(alice, xray) the Xray file holds no client with alice's token;
\* after delete_user(alice) get_user_info(alice) finds nothing.
C6_Scenario ==
    /\ scen.step = 1 =>
          /\ get_user_info(users, stats, "alice") # None
          /\ Total(get_user_info(users, stats, "alice")[1].traffic) = Zero
    /\ scen.step = 2 => is_over_quota(stats, users, "alice")
    /\ scen.step = 3 =>
          /\ TokenOf(users, "alice") # None
          /\ TokenOf(users, "alice")[1] \notin FileTokens(xrayFile)
    /\ scen.step = 4 => get_user_info(users, stats, "alice") = None

\* The whole run done, with alice's token put in the Xray file by the add.
C6_Witness == scen.step = 4 /\ scen.listed

\* The token sequence of one inbound's client list.
InboundTokenSeq(ib) == [j \in 1..Len(ib.clients) |-> ClientToken(ib.protocol, ib.clients[j])]

\* C7: update_xray_users run twice in a row on an unchanged mapping leaves
\* the same file after the second run as after the first.
C7_RegenerateTwice ==
    LET r1 == regenerate(Cur, "ok")
        r2 == regenerate(r1, "ok")
    IN  r1.ok => (r2.ok /\ r2.xrayFile = r1.xrayFile)

\* An Xray file that lists a client and is out of date: the first run
\* rewrites it to list somebody, the second finds nothing to change.
C7_Witness ==
    /\ FileTokens(xrayFile) # {}
    /\ regenerate(Cur, "ok").ok
    /\ regenerate(Cur, "ok").xrayFile # xrayFile
    /\ FileTokens(regenerate(Cur, "ok").xrayFile) # {}

\* The desired state of the Xray file for a user mapping: every inbound
\* lists, in mapping order, the tokens of the users that are not banned.
DesiredTokens(us) ==
    LET kept == SelectSeq(us, LAMBDA r : ~r.banned /\ r.uuid # None)
    IN  [i \in 1..Len(kept) |-> kept[i].uuid[1]]
Desired(S) ==
    /\ S.xrayFile # None
    /\ \A i \in 1..Len(S.xrayFile[1].inbounds) :
          InboundTokenSeq(S.xrayFile[1].inbounds[i]) = DesiredTokens(S.users)
Retried(r1, r2) == r1.fault # "ok" => (r2.ok /\ Desired(r2))

\* C8: for add_user, delete_user, ban_user, unban_user and change_uuid: if
\* the write or the restart of the Xray file fails once and the identical
\* call is repeated with the environment healthy, the repeated call reports
\* success and the Xray file is in the desired state.
C8_RetryConverges ==
    \A u \in Usernames, fault \in XrayFaults \ {"ok"} :
        /\ \A quota \in Quotas :
              u \in Absent =>
                 LET r1 == add_user(Cur, u, "xray", quota, fault)
                 IN  Retried(r1, add_user(r1, u, "xray", quota, "ok"))
        /\ u \in Names(users) =>
              /\ LET r1 == delete_user(Cur, u, fault)
                 IN  Retried(r1, delete_user(r1, u, "ok"))
              /\ LET r1 == ban_user(Cur, u, "xray", fault)
                 IN  Retried(r1, ban_user(r1, u, "xray", "ok"))
              /\ LET r1 == unban_user(Cur, u, "xray", fault)
                 IN  Retried(r1, unban_user(r1, u, "xray", "ok"))
              /\ LET r1 == change_uuid(Cur, u, fault)
                 IN  Retried(r1, change_uuid(r1, u, "ok"))

\* C9: once a user is banned and a regeneration of the Xray file has
\* succeeded since, the user's token is in no client list for as long as the
\* user stays banned, whatever operations run in between.
C9_BannedNotListed ==
    \A u \in applied :
        /\ u \in BannedNames(users)
        /\ TokenOf(users, u) # None => TokenOf(users, u)[1] \notin FileTokens(xrayFile)

\* A banned proxy user left out of an Xray file that lists another user.
C9_Witness ==
    \E u \in applied :
        /\ TokenOf(users, u) # None
        /\ FileTokens(xrayFile) # {}

\* C10: delete_user, ban_user, unban_user, set_quota and change_uuid on a
\* username not in the store report failure, leave store, counters and Xray
\* file as they are and invoke no external primitive.
Untouched(r) ==
    /\ ~r.ok
    /\ r.users = users /\ r.stats = stats /\ r.xrayFile = xrayFile
    /\ r.calls = <<>>
C10_UnknownRejected ==
    \A u \in Absent, service \in Services, fault \in XrayFaults :
        /\ Untouched(delete_user(Cur, u, fault))
        /\ Untouched(ban_user(Cur, u, service, fault))
        /\ Untouched(unban_user(Cur, u, service, fault))
        /\ Untouched(change_uuid(Cur, u, fault))
        /\ \A quota \in Quotas \ {None} : Untouched(set_quota(Cur, u, quota))

\* An unknown name on a system with a stored user, recorded usage for the
\* unknown name and an Xray file listing a client.
C10_Witness ==
    \E u \in Absent :
        /\ users # <<>>
        /\ stats[u] # None /\ Total(stats[u][1]) # Zero
        /\ FileTokens(xrayFile) # {}
        /\ ~delete_user(Cur, u, "ok").ok

\* C11: add_user, delete_user, ban_user, unban_user, change_uuid and
\* configure_services report success only if the apply of the Xray file
\* succeeded: when the write of the file or the restart of the service
\* fails, the result is not success.
C11_SuccessOnlyIfApplied ==
    \A u \in Usernames, service \in Services, quota \in Quotas,
       fault \in XrayFaults \ {"ok"} :
        \A r \in { add_user(Cur, u, service, quota, fault),
                   delete_user(Cur, u, fault),
                   ban_user(Cur, u, service, fault),
                   unban_user(Cur, u, service, fault),
                   change_uuid(Cur, u, fault),
                   configure_services(Cur, topology, fault) } :
            (r.fault # "ok" /\ r.regen = "failed") => ~r.ok

\* The store shows the change the operation of process c made.
Reflected(c) ==
    LET d == Get(users, procs[c].u)
    IN  /\ d # None
        /\ procs[c].op = "set_quota" => d[1].quota = Some(5)
        /\ procs[c].op = "ban_user" => d[1].banned

\* C12: when two operations issued at the same time by different processes
\* have both reported success, the user store shows the change of both: no
\* update is lost.
C12_NoLostUpdate ==
    (\A c \in Callers : procs[c].pc = "done" /\ procs[c].ok)
        => \A c \in Callers : Reflected(c)

\* C13: a process interrupted at any point of _save_users leaves a store
\* that loads as a complete mapping: when no process is writing the store,
\* users.json is not a truncated file.
C13_CrashConsistent ==
    (\A c \in Callers : procs[c].pc # "writing") => ~torn

\* C14: backup_data does not run while an operation is writing the store,
\* and restore_data does not run between the load and the save of another
\* operation.
C14_BackupExclusive ==
    [][ /\ BackupData => \A c \in Callers : procs[c].pc # "writing"
        /\ RestoreData => \A c \in Callers : procs[c].pc \notin {"loaded", "writing"}
      ]_vars

\* C15: an operation that has invoked a backend process always goes on to
\* return to its caller, also when the backend process never completes.
C15_BackendCallReturns ==
    \A c \in Callers : procs[c].pc \in {"backend", "hung"} => ENABLED Proceed(c)

\* upload + download of u, zero when u has no entry.
Usage(st, u) == Total(get_user_traffic(st, u))
\* The step changes the usage of u.
UsageChanged(u) == stats'[u] # stats[u] /\ Usage(stats', u) # Usage(stats, u)
\* The step is an add_usage for u that does not lower u's usage.
UsageAdded(u) ==
    /\ \E rep \in Reports : AddUsage(u, rep, MaxReports)
    /\ ~LessBytes(Usage(stats', u), Usage(stats, u))

C17_BannedAt ==
    /\ \A i \in 1..Len(users) : users[i].banned <=> (users[i].banned_at # None)
    /\ \A u \in Names(users), service \in Services :
          LET r == ban_user(Cur, u, service, "ok")
          IN  Get(users, u)[1].banned =>
                 Get(r.users, u)[1].banned_at = Get(users, u)[1].banned_at

\* What the later operations make of the store when they are called for v.
LaterStores(v) ==
    UNION { { ban_user(Cur, v, service, fault).users,
              unban_user(Cur, v, service, fault).users,
              set_quota(Cur, v, quota).users,
              change_uuid(Cur, v, fault).users,
              add_user(Cur, v, service, quota, fault).users } :
            service \in Services, quota \in Quotas, fault \in XrayFaults }
HasToken(us, u) == TokenOf(us, u) # None

\* C18: a record carries a uuid iff the user was created for xray: add_user
\* gives the new record a uuid exactly for service xray, and no later
\* operation, change_uuid included, gives a uuid to a user that has none or
\* takes it from a user that has one.
C18_TokenIffXray ==
    /\ \A u \in Usernames \ Names(users), service \in Services, quota \in Quotas :
          HasToken(add_user(Cur, u, service, quota, "ok").users, u) <=> (service = "xray")
    /\ \A v \in Usernames :
          \A us \in LaterStores(v) :
             \A u \in Names(users) \cap Names(us) : HasToken(us, u) <=> HasToken(users, u)

\* C19: a username with no usage entry counts as zero usage: get_usage
\* gives upload 0 and download 0, and is_over_quota answers as it does for
\* an entry with zero usage, also when the quota is 0.
C19_UntrackedAsZero ==
    \A u \in Usernames :
       stats[u] = None =>
          /\ get_user_traffic(stats, u) = ZeroTraffic
          /\ is_over_quota(stats, users, u)
                = is_over_quota([stats EXCEPT ![u] = Some(ZeroTraffic)], users, u)

\* Quotas to change to, some of them never stored before.
NewQuotas == {Some(5), Some(7)}

\* C20: after set_quota(u, q) reports success, is_over_quota(u) is decided
\* by q and the usage on record, whatever quota u had before.
C20_QuotaAtCallTime ==
    \A u \in Names(users), q \in NewQuotas :
       LET r == set_quota(Cur, u, q)
       IN  /\ r.ok
           /\ r.stats = stats
           /\ is_over_quota(r.stats, r.users, u)
                 <=> (stats[u] # None /\ ~LessBytes(Usage(stats, u), QuotaBytes(q[1])))

\* A user over the quota of 5 who is within quota once the quota is 7.
C20_Witness ==
    \E u \in Names(users) :
       /\ get_user_quota(users, u) = Some(5)
       /\ is_over_quota(stats, users, u)
       /\ ~is_over_quota(stats, set_quota(Cur, u, Some(7)).users, u)

\* The steps of test_user_management for one user: add_user with quota 10,
\* get_user_info, ban_user, unban_user, delete_user, each meeting its own
\* outcome of the environment.
TestSteps(u, service, f) ==
    LET a  == add_user(Cur, u, service, Some(10), f[1])
        b  == ban_user(a, u, service, f[2])
        ub == unban_user(b, u, service, f[3])
        d  == delete_user(ub, u, f[4])
    IN  <<a.ok, get_user_info(a.users, a.stats, u) # None, b.ok, ub.ok, d.ok>>

\* C21: for a username not in the store and each service type, add_user,
\* get_user_info, ban_user, unban_user and delete_user in this order all
\* report success, whatever other users are in the store.
C21_TestSequence ==
    \A u \in Absent, service \in Services, f \in [1..4 -> XrayFaults] :
        TestSteps(u, service, f) = <<TRUE, TRUE, TRUE, TRUE, TRUE>>

\* A store with an unbanned ssh user, and the sequence run for a further
\* xray user whose add_user does not get the Xray file regenerated.
C21_Witness ==
    /\ xrayFile # None
    /\ \E v \in Names(users) : TokenOf(users, v) = None /\ ~Get(users, v)[1].banned
    /\ \E u \in Absent :
          LET a == add_user(Cur, u, "xray", Some(10), "restart")
          IN  /\ a.ok /\ a.regen = "failed"
              /\ TestSteps(u, "xray", [i \in 1..4 |-> "restart"])[5]

\* What one mutating operation run after the backup leaves.
Between ==
    UNION { { add_user(Cur, u, service, Some(5), "ok"),
              delete_user(Cur, u, "ok"),
              ban_user(Cur, u, service, "ok"),
              set_quota(Cur, u, Some(5)),
              change_uuid(Cur, u, "ok") } : u \in Usernames, service \in Services }
    \cup { add_usage(Cur, u, rep) : u \in Usernames, rep \in Reports }

\* C22: restore_data on the archive backup_data made reports success and
\* leaves the user store and the usage counters as they were at the time of
\* the backup, whatever operation ran in between; restore_data on a path
\* that does not exist reports failure and changes nothing.
C22_BackupRestore ==
    /\ \A S \in Between \cup {Cur} :
          LET r == restore_data(S, Some(Archived(Cur, torn)))
          IN  r.ok /\ r.users = users /\ r.stats = stats
    /\ LET r == restore_data(Cur, None)
       IN  ~r.ok /\ r.users = users /\ r.stats = stats /\ r.xrayFile = xrayFile

\* An archive of a store with a user in it, a store changed since then, and
\* a restore that brings the archived store back.
C22_Witness ==
    /\ backup # None
    /\ backup[1].users # <<>>
    /\ backup[1].users # users
    /\ restore_data(Cur, backup).users = backup[1].users
    /\ \E S \in Between : S.stats # stats /\ S.users # users

\* The counters of u, zero when u has no entry.
Counters(st, u) == get_user_traffic(st, u)

\* C23: add_usage(u, up, down) adds up to the upload counter of u and down
\* to its download counter on every call, so that a second call with the
\* same report adds the report again, and it leaves the entries of all other
\* users as they are.
C23_AddUsageAccumulates ==
    \A u \in Usernames, rep \in Reports :
        LET once  == add_usage(Cur, u, rep)
            twice == add_usage(once, u, rep)
            old   == Counters(stats, u)
        IN  /\ once.ok /\ twice.ok
            /\ Counters(once.stats, u).upload = AddBytes(old.upload, rep[1])
            /\ Counters(once.stats, u).download = AddBytes(old.download, rep[2])
            /\ Counters(twice.stats, u).upload = AddBytes(AddBytes(old.upload, rep[1]), rep[1])
            /\ Counters(twice.stats, u).download
                  = AddBytes(AddBytes(old.download, rep[2]), rep[2])
            /\ Counters(twice.stats, u) # Counters(once.stats, u)
            /\ \A v \in Usernames \ {u} :
                  once.stats[v] = stats[v] /\ twice.stats[v] = stats[v]

\* A user with usage on record next to another user with an entry.
C23_Witness ==
    \E u, v \in Usernames :
        /\ u # v
        /\ stats[u] # None /\ stats[v] # None
        /\ Usage(stats, u) # Zero
        /\ \E rep \in Reports : Usage(add_usage(Cur, u, rep).stats, u) # Usage(stats, u)

\* The store after one later operation on u.
LaterOn(u) ==
    UNION { { ban_user(Cur, u, service, "ok").users,
              unban_user(Cur, u, service, "ok").users,
              set_quota(Cur, u, quota).users,
              change_uuid(Cur, u, "ok").users } :
            service \in Services, quota \in Quotas }
    \cup { add_usage(Cur, u, rep).users : rep \in Reports }
    \cup { reset_usage(Cur, u).users }

\* C24: created_at is the time of the add_user that made the record, and
\* ban_user, unban_user, set_quota, change_uuid, the usage updates and
\* get_user_info on that user leave it as it is.
C24_CreatedAtKept ==
    /\ \A u \in Absent, service \in Services :
          Get(add_user(Cur, u, service, None, "ok").users, u)[1].created_at = now
    /\ \A u \in Names(users) :
          /\ \A us \in LaterOn(u) :
                Get(us, u)[1].created_at = Get(users, u)[1].created_at
          /\ get_user_info(users, stats, u)[1].created_at = Get(users, u)[1].created_at

\* A user made at an earlier time than now, banned since.
C24_Witness ==
    \E u \in Names(users) :
        /\ Get(users, u)[1].created_at < now
        /\ Get(users, u)[1].banned_at = Some(now)
        /\ Get(set_quota(Cur, u, Some(5)).users, u)[1].created_at < now

\* What add_user, delete_user, ban_user, unban_user and change_uuid leave
\* when the write of the store fails.
StoreWriteFailures ==
    UNION { { add_user(Cur, u, service, None, "store"),
              delete_user(Cur, u, "store"),
              ban_user(Cur, u, service, "store"),
              unban_user(Cur, u, service, "store"),
              change_uuid(Cur, u, "store") } :
            u \in Usernames, service \in Services }

\* C25: when the store write of add_user, delete_user, ban_user, unban_user
\* or change_uuid fails, the operation reports failure, it has invoked no
\* backend primitive and the store is as it was before.
C25_StoreBeforeBackends ==
    \A r \in StoreWriteFailures :
        r.fault = "store" => ~r.ok /\ r.calls = <<>> /\ r.users = users

\* C26: after a generation of the Xray file, the client list of each inbound
\* is the list of the tokens of the users that are not banned and have a
\* token, in the order of the mapping; users without a token (ssh users) are
\* left out and do not make the generation fail.
C26_ClientLists ==
    xrayFile # None =>
        LET r == regenerate(Cur, "ok")
        IN  r.ok /\ Desired(r)

\* The tokens the Xray file should list for a mapping.
DesiredTokenSet(us) == {DesiredTokens(us)[i] : i \in 1..Len(DesiredTokens(us))}
\* What an operation on the proxy backend leaves.
ProxyOps(F) ==
    UNION { { add_user(Cur, u, "xray", quota, fault),
              delete_user(Cur, u, fault),
              ban_user(Cur, u, "xray", fault),
              unban_user(Cur, u, "xray", fault),
              change_uuid(Cur, u, fault) } :
            u \in Usernames, quota \in Quotas, fault \in F }

\* C27: when an operation on the proxy backend has reported success, the
\* tokens in the client lists of the Xray file are the tokens of the store's
\* unbanned proxy users.
C27_StoreAndFileAgree ==
    xrayFile # None =>
        \A r \in ProxyOps(XrayFaults) :
            r.ok => FileTokens(r.xrayFile) = DesiredTokenSet(r.users)

\* C28: a generation that meets an unbanned user without a token for the
\* Xray file leaves the file as it is and makes the operation that ran it
\* report failure.
C28_MissingTokenReported ==
    xrayFile # None =>
        \A r \in ProxyOps({"ok"}) :
            r.regen = "failed" => (r.xrayFile = xrayFile /\ ~r.ok)

\* The external primitives of the OS accounts and of the ssh ban tool, and
\* those of the Xray file.
AccountCalls == {"useradd", "chpasswd", "userdel", "fail2ban_banip", "fail2ban_unbanip"}
ArtifactCalls == {"write_xray", "restart_xray"}
CallSet(r) == {r.calls[i] : i \in 1..Len(r.calls)}
TypeOf(us, u) == IF TokenOf(us, u) # None THEN "xray" ELSE "ssh"
AllowedCalls(service) == IF service = "xray" THEN ArtifactCalls ELSE AccountCalls

\* C29: add_user, delete_user and ban_user invoke only the primitives of the
\* user's backend type: for an xray user those of the Xray file, for an ssh
\* user those of the OS account and of the ban tool.
C29_BackendsByType ==
    /\ \A u \in Absent, service \in Services, quota \in Quotas :
          CallSet(add_user(Cur, u, service, quota, "ok")) \subseteq AllowedCalls(service)
    /\ \A u \in Names(users) :
          /\ CallSet(ban_user(Cur, u, TypeOf(users, u), "ok"))
                \subseteq AllowedCalls(TypeOf(users, u))
          /\ CallSet(delete_user(Cur, u, "ok")) \subseteq AllowedCalls(TypeOf(users, u))

\* C30: when the write or the restart of the Xray file fails in add_user,
\* delete_user, ban_user, unban_user or change_uuid, the store keeps the
\* change the operation made and the result is not plain success.
C30_DegradedResult ==
    \A u \in Usernames, quota \in Quotas, fault \in XrayFaults \ {"ok"} :
        /\ LET r == add_user(Cur, u, "xray", quota, fault)
           IN  r.fault = fault => (r.users = add_user(Cur, u, "xray", quota, "ok").users /\ ~r.ok)
        /\ LET r == delete_user(Cur, u, fault)
           IN  r.fault = fault => (r.users = delete_user(Cur, u, "ok").users /\ ~r.ok)
        /\ LET r == ban_user(Cur, u, "xray", fault)
           IN  r.fault = fault => (r.users = ban_user(Cur, u, "xray", "ok").users /\ ~r.ok)
        /\ LET r == unban_user(Cur, u, "xray", fault)
           IN  r.fault = fault => (r.users = unban_user(Cur, u, "xray", "ok").users /\ ~r.ok)
        /\ LET r == change_uuid(Cur, u, fault)
           IN  r.fault = fault => (r.users = change_uuid(Cur, u, "ok").users /\ ~r.ok)

\* C31: after configure_services or restore_data report success, the client
\* lists of the Xray file hold the token of every unbanned proxy user in
\* the store.
C31_CompleteArtifact ==
    /\ LET r == configure_services(Cur, topology, "ok")
       IN  r.ok => DesiredTokenSet(r.users) \subseteq FileTokens(r.xrayFile)
    /\ LET r == restore_data(Cur, Some(Archived(Cur, FALSE)))
       IN  r.ok => DesiredTokenSet(r.users) \subseteq FileTokens(r.xrayFile)

\* C32: after change_uuid(u) reports success for a user u with a token, the
\* old token of u is in no client list of the Xray file and the new token is
\* in the client lists iff u is not banned.
C32_ChangeUuidApplied ==
    xrayFile # None =>
        \A u \in Names(users), fault \in XrayFaults :
            TokenOf(users, u) # None =>
                LET r == change_uuid(Cur, u, fault)
                IN  r.ok =>
                      /\ TokenOf(users, u)[1] \notin FileTokens(r.xrayFile)
                      /\ (TokenOf(r.users, u)[1] \in FileTokens(r.xrayFile))
                            <=> ~Get(users, u)[1].banned

\* C33: get_user_info(u) beside a mutating operation returns the record of u
\* or nothing; it never fails on a store file that is being rewritten.
C33_InfoBesideWrite ==
    \A u \in Usernames :
        get_user_info_on_disk(torn, users, stats, u) # "JSONDecodeError"

\* C34: add_user for an ssh user whose OS account is already there and
\* delete_user for a user whose OS account is not there carry on: the record
\* is stored with the usage baseline, respectively removed with the usage
\* reset, and the operation reports success.
C34_AccountTolerance ==
    /\ \A u \in Absent \cap accounts, quota \in Quotas :
          LET r == add_user(Cur, u, "ssh", quota, "ok")
          IN  r.ok /\ u \in Names(r.users) /\ r.stats[u] # None
    /\ \A u \in Names(users) \ accounts :
          LET r == delete_user(Cur, u, "ok")
          IN  r.ok /\ u \notin Names(r.users) /\ Usage(r.stats, u) = Zero

\* A name with an OS account and no record, which add_user takes, next to a
\* record with no OS account, which delete_user removes.
C34_Witness ==
    /\ \E u \in Absent \cap accounts : add_user(Cur, u, "ssh", None, "ok").ok
    /\ \E u \in Names(users) \ accounts :
          TokenOf(users, u) = None /\ delete_user(Cur, u, "ok").ok

\* The results of the operations on u, whatever the Xray file and the store
\* do while they run.
OpsOn(S, u) ==
    {add_user(S, u, service, quota, f) :
         service \in Services, quota \in Quotas, f \in XrayFaults \cup StoreFaults}
    \cup {delete_user(S, u, f) : f \in XrayFaults \cup StoreFaults}
    \cup {ban_user(S, u, service, f) :
              service \in Services, f \in XrayFaults \cup StoreFaults}
    \cup {unban_user(S, u, service, f) :
              service \in Services, f \in XrayFaults \cup StoreFaults}
    \cup {set_quota(S, u, quota) : quota \in Quotas}
    \cup {change_uuid(S, u, f) : f \in XrayFaults \cup StoreFaults}
\* The files once v has usage on record.
WithUsage(v) == add_usage(Cur, v, ScenarioReport)

\* C35: add_user, delete_user, ban_user, unban_user, set_quota and
\* change_uuid on a user u leave the record and the usage counters of every
\* other user as they were; get_user_info changes neither the store nor the
\* counters.
C35_OtherUsersKept ==
    \A u \in Usernames : \A v \in Usernames \ {u} :
        /\ \A r \in OpsOn(WithUsage(v), u) :
              /\ Get(r.users, v) = Get(users, v)
              /\ r.stats[v] = WithUsage(v).stats[v]
        /\ LET r == get_user_info_call(WithUsage(v), u)
           IN  r.users = users /\ r.stats = WithUsage(v).stats

\* Two users in the store, one with a token and banned; deleting the other
\* one, whose usage is reset, leaves the usage of the first in place.
C35_Witness ==
    \E u, v \in Names(users) :
        /\ u # v
        /\ TokenOf(users, v) # None /\ Get(users, v)[1].banned
        /\ LET r == delete_user(WithUsage(v), u, "ok")
           IN  r.ok /\ Usage(r.stats, u) = Zero /\ Usage(r.stats, v) # Zero

\* C36: after delete_user(u), usage reported for u in between and an
\* add_user(u, ...) that reports success, get_user_info(u) shows usage 0,
\* banned false and the quota given to that add_user.
C36_FreshAfterReAdd ==
    \A u \in Names(users), rep \in Reports, quota \in QuotasFromZero :
        LET d    == delete_user(Cur, u, "ok")
            s    == add_usage(d, u, rep)
            a    == add_user(s, u, "ssh", quota, "ok")
            info == get_user_info(a.users, a.stats, u)
        IN  (d.ok /\ a.ok) =>
              /\ info # None
              /\ Total(info[1].traffic) = Zero
              /\ info[1].banned = FALSE
              /\ info[1].quota = quota

====
